---- MODULE Spec2Model ----
(***************************************************************************)
(* The package registry of spack: PackageDB (lib/spack/spack/packages.py)  *)
(* with the memoized decorator of llnl.util.lang, and the stage directory  *)
(* of a build: Stage (lib/spack/spack/stage.py).                           *)
(*                                                                         *)
(* One process, one PackageDB.  The files root/<name>/package.py are the   *)
(* environment: they can change between two calls of the registry.  The    *)
(* directories of the stages outlive the process; other programs can       *)
(* change them between two calls on a Stage.                               *)
(***************************************************************************)
EXTENDS Integers, Sequences, FiniteSets, TLC

\* ------------------------------------------------------------------ bounds
\* Package objects constructed in one run.
MaxInst == 3
\* imp.load_source invocations in one run, over all package names.
MaxLoads == 2
\* Calls of graph_dependencies in one run.
MaxGraphs == 2
\* Stage objects constructed in one run.
MaxStages == 2
\* Changes other programs make to the file system in one run.
MaxChanges == 1

\* ------------------------------------------------------------------ inputs
\* Entries of root.  All of them pass validate_module_name.
PkgNames == {"boost", "scratch", "zlib"}

\* String order on the package names, as list.sort() compares them.
NameRank(n) == CASE n = "boost" -> 1 [] n = "scratch" -> 2 [] n = "zlib" -> 3

\* State of root/<name>/package.py when a call looks at it:
\*   absent      no such path
\*   dir         the path exists and is not a regular file
\*   unreadable  a regular file without read permission
\*   file        a readable regular file
FileStates == {"absent", "dir", "unreadable", "file"}

exists(s) == s \in {"dir", "unreadable", "file"}
isfile(s) == s \in {"unreadable", "file"}
access_R_OK(s) == s \in {"dir", "file"}

\* What executing a readable package.py does:
\*   ok           defines the class mod_to_class(name)
\*   ImportError  the source raises ImportError
\*   Error        the source raises another exception (SyntaxError, NameError)
\*   noattr       the module has no attribute mod_to_class(name)
\*   notclass     the attribute is not a class
Contents == {"ok", "ImportError", "Error", "noattr", "notclass"}

\* A package file as one call finds it: its state and, when it can be
\* executed, what executing it does.
Files == {[state |-> s, content |-> c] : s \in FileStates, c \in Contents}
NoFile == [state |-> "", content |-> ""]
GoodFile == [state |-> "file", content |-> "ok"]
FileInputs == {f \in Files : f.state = "file" \/ f.content = "ok"}

\* Specs handed to the registry.  Spec equality is _cmp_key equality: here
\* equality of the records.  The virtual flag is the caller's spec.virtual.
ConcreteSpecs ==
    { [name |-> "zlib",  version |-> 1, virtual |-> FALSE],
      [name |-> "zlib",  version |-> 2, virtual |-> FALSE],
      [name |-> "boost", version |-> 1, virtual |-> FALSE] }
VirtualSpecs == { [name |-> "scratch", version |-> 0, virtual |-> TRUE] }
Specs == ConcreteSpecs \cup VirtualSpecs
NoSpec == [name |-> "", version |-> 0, virtual |-> FALSE]

\* What a package constructor does: returns, or raises an Exception.
NoExc == [type |-> "", msg |-> ""]
Returns == [type |-> "returns", msg |-> ""]
Exceptions == { [type |-> "ValueError", msg |-> "bad version"] }
CtorOutcomes == {Returns} \cup Exceptions

\* str(e) of an exception: its message, without its type.
str(e) == e.msg

\* Virtual packages asked of providers_for, and the provides() of each recipe.
VirtualNames == {"mpi", "blas", "lapack"}
provided(n) == CASE n = "boost" -> {"mpi"}
                 [] n = "zlib"  -> {"mpi", "blas"}
                 [] OTHER       -> {}

\* The depends_on() of each recipe: the keys of pkg.dependencies.
dependencies(n) == CASE n = "boost"   -> {"zlib"}
                     [] n = "scratch" -> {"boost", "zlib"}
                     [] OTHER         -> {}

\* The entries of pkg.provided of each recipe: the provided virtual specs.
\* Two entries of zlib share the name mpi.
provided_specs(n) ==
    CASE n = "boost" -> {[name |-> "mpi", version |-> 1]}
      [] n = "zlib"  -> {[name |-> "mpi", version |-> 1],
                         [name |-> "mpi", version |-> 2],
                         [name |-> "blas", version |-> 1]}
      [] OTHER       -> {}

\* ------------------------------------------------------------------- state
VARIABLES
    instances,       \* PackageDB.instances: cache key -> package object
    nextInst,        \* the next package object to be constructed
    classCache,      \* memoized.cache of get_class_for_package_name: name -> class
    loads,           \* imp.load_source invocations, per name
    nameCache,       \* memoized.cache of all_package_names: () -> list
    provider_index,  \* PackageDB.provider_index: <<>> is None, <<index>> is set
    ret,             \* the last call, what it found on disk and how it ended
    lastGot,         \* history: spec -> object of its last successful get since
                     \*   the last delete, purge or new=True of that spec (0: none)
    evicted,         \* history: <<spec, object>> for every cached object that a
                     \*   delete, purge or new=True was called to drop
    graph            \* graph_dependencies: its position, the list it walks,
                     \*   the lines written to out and the local deps

\* What the registry's own methods leave alone.
graphVars == <<graph>>

Range(f) == {f[x] : x \in DOMAIN f}
Restrict(f, S) == [x \in S |-> f[x]]
\* All imp.load_source invocations so far.
TotalLoads(ld) == ld["boost"] + ld["scratch"] + ld["zlib"]

\* ================================================== stage.py: the file system
\* spack.stage_path, and spack.tmp_dirs in their configured order.
stage_path == "stage"
tmp_dirs == <<"tmpA", "tmpB">>
\* A directory beside tmpA whose path string begins with the path string of
\* tmpA, as /tmp/spack-stage-old begins with /tmp/spack-stage.
Beside == "tmpA-old"
\* find_tmp_root() returning None.
NoTmp == ""
\* kwargs.get('name') returning None.
NoName == ""
\* The names tempfile.mkdtemp('', STAGE_PREFIX, dir) can make up.
TmpNames == {"spack-stage-1", "spack-stage-2"}

join_path(root, name) == [root |-> root, name |-> name]
dirname(p) == [root |-> p.root, name |-> ""]
basename(p) == p.name
NoPath == join_path("", "")
\* The path of the named stage "foo", and the directory a run starts in.
NamedPath == join_path(stage_path, "foo")
HomeDir == join_path("home", "")

\* The directories below tmp_dirs, and one below Beside.
TmpPaths == {join_path(r, n) : r \in Range(tmp_dirs), n \in TmpNames}
            \cup {join_path(Beside, "old-stage")}
Paths == {join_path(stage_path, n) : n \in {"foo"} \cup TmpNames} \cup TmpPaths

\* str.startswith on the path strings real_path and real_tmp.
startswith(real_path, real_tmp) ==
    \/ real_path.root = real_tmp
    \/ real_path.root = Beside /\ real_tmp = tmp_dirs[1]

\* What a path holds: nothing, a regular file, a directory with its content,
\* or a symbolic link with its target.  A stage directory is empty, holds
\* the fetched archive, or the archive and the expanded source directory
\* (which an empty archive leaves empty), or the archive and the two
\* directories of an archive with two top-level directories.
\* A process that ends in the middle of fetch, expand or rmtree leaves the
\* directory half written or half removed.
StageContents == {"empty", "archive", "expanded", "expanded_empty",
                  "expanded_two", "fetching", "expanding", "removing"}
\* What expanding an archive can leave beside it.
ArchiveKinds == {"expanded", "expanded_empty", "expanded_two"}
NoNode == [type |-> "none", target |-> NoPath, content |-> ""]
FileNode == [type |-> "file", target |-> NoPath, content |-> ""]
DirNode(c) == [type |-> "dir", target |-> NoPath, content |-> c]
LinkNode(t) == [type |-> "link", target |-> t, content |-> ""]

os_path_islink(f, p) == f[p].type = "link"
os_path_realpath(f, p) == IF os_path_islink(f, p) THEN f[p].target ELSE p
\* os.path.exists and os.path.isdir follow links.
os_path_exists(f, p) == f[os_path_realpath(f, p)].type \in {"file", "dir"}
os_path_isdir(f, p) == f[os_path_realpath(f, p)].type = "dir"
\* Mutant: no link is found dead.
never_dangling(f, p) == FALSE

\* p is a link whose target does not exist.
Dangling(f, p) == os_path_islink(f, p) /\ ~os_path_exists(f, p)
\* The paths directly below the stage root.
StageRootPaths == {p \in Paths : p.root = stage_path}
os_unlink(f, p) == [f EXCEPT ![p] = NoNode]
os_symlink(f, src, p) == [f EXCEPT ![p] = LinkNode(src)]
mkdtemp(f, p) == [f EXCEPT ![p] = DirNode("empty")]
mkdirp(f, p) == IF os_path_exists(f, p) THEN f ELSE [f EXCEPT ![p] = DirNode("empty")]
\* shutil.rmtree(p, True): errors are ignored, so only a directory goes.
rmtree(f, p) == IF f[p].type = "dir" THEN [f EXCEPT ![p] = NoNode] ELSE f

\* The entries os.listdir finds in a stage directory: the archive
\* os.path.basename(self.fetcher.url), the source directory, the second
\* directory of the archive.
NoEntry == [name |-> "", type |-> "none", empty |-> TRUE]
ArchiveEntry == [name |-> "zlib-1.tar.gz", type |-> "file", empty |-> FALSE]
SourceEntry(empty) == [name |-> "zlib-1", type |-> "dir", empty |-> empty]
DocEntry == [name |-> "doc", type |-> "dir", empty |-> TRUE]
listdir(f, p) ==
    LET c == f[os_path_realpath(f, p)].content
    IN CASE c = "archive"        -> {ArchiveEntry}
         [] c = "expanded"       -> {ArchiveEntry, SourceEntry(FALSE)}
         [] c = "expanded_empty" -> {ArchiveEntry, SourceEntry(TRUE)}
         [] c = "expanded_two"   -> {ArchiveEntry, SourceEntry(FALSE), DocEntry}
         [] OTHER                -> {}

\* The working directory: the directory the process is in (at, and sub, the
\* entry of at it is in, "" when it is in at itself), and whether it still
\* exists.
os_chdir(f, p) == [at |-> os_path_realpath(f, p), sub |-> "", alive |-> TRUE]
\* The working directory once f has become f2.
after_removal(c, f, f2) ==
    IF c.at \in Paths /\ f[c.at].type = "dir" /\ f2[c.at].type # "dir"
    THEN [c EXCEPT !.alive = FALSE] ELSE c

\* Fetch strategies handed to Stage (spack.fetch_strategy), and the mirror
\* path of the stage ("" is None).
URLFetchStrategy(url, digest) == [type |-> "url", url |-> url, digest |-> digest]
PrimaryURL == [base |-> "primary", path |-> "zlib-1.tar.gz"]
GitFetchStrategy == [type |-> "git", url |-> [base |-> "repo", path |-> ""],
                     digest |-> ""]
NoMirrorPath == ""
PlainArgs == [fetcher |-> URLFetchStrategy(PrimaryURL, "D"),
              mirror_path |-> NoMirrorPath]
StageArgs == {PlainArgs,
              [fetcher |-> URLFetchStrategy(PrimaryURL, "D"),
               mirror_path |-> "zlib/zlib-1.tar.gz"],
              [fetcher |-> GitFetchStrategy,
               mirror_path |-> "zlib/zlib-1.tar.gz"]}

\* What mkdirp and mkdtemp find a candidate of tmp_dirs to be:
\*   writable     mkdirp and mkdtemp succeed
\*   readonly     mkdirp succeeds (the directory exists), mkdtemp raises OSError
\*   uncreatable  mkdirp raises OSError
CandStates == {"writable", "readonly", "uncreatable"}
Candidates == [1..Len(tmp_dirs) -> CandStates]

VARIABLES
    fs,        \* path -> what it holds
    cwd,       \* the working directory of the process
    stage,     \* the Stage object last constructed
    sret,      \* the last call on a stage, its arguments and how it ended
    made,      \* Stage constructions so far
    changes,   \* changes other programs made to the file system so far
    procs      \* the processes that run _setup and destroy one file system
               \*   call at a time: the call each is at and its locals

stageVars == <<fs, cwd, stage, sret, made, changes, procs>>
registryVars == <<instances, nextInst, classCache, loads, nameCache,
                  provider_index, ret, lastGot, evicted>>

vars == <<registryVars, graphVars, stageVars>>

NoStage == [name |-> NoName, path |-> NoPath, tmp_root |-> NoTmp,
            mirror_path |-> NoMirrorPath, fetcher |-> GitFetchStrategy]

NoSRet == [op |-> "init", kind |-> "ok", name |-> NoName, path |-> NoPath,
           use_tmp |-> FALSE, tmp_root |-> NoTmp, writable |-> FALSE,
           probed |-> <<>>, access |-> TRUE, created |-> FALSE,
           listing |-> <<>>, raised |-> "", attempts |-> <<>>,
           tried |-> <<>>, won |-> 0, outcomes |-> <<>>,
           mirrors |-> <<>>]

\* tty.die ends the process.
StageDead == sret.kind = "die"

\* Two runs of spack on one stage root.  A process is at the call pc of the
\* method op ("done": between two methods) with the locals tmp_root, todo
\* (the rest of os.listdir(spack.stage_path)) and dir (tmp_dir of _setup,
\* the directory remove_linked_tree resolved); kind is how its last method
\* ended, has_stage whether it holds a Stage object.  A process that was
\* terminated is followed by a new one: was is the method the last of the
\* terminated ones was in ("": none was terminated).
Procs == {"p", "q"}
Idle == [op |-> "idle", was |-> "", pc |-> "done", tmp_root |-> NoTmp,
         todo |-> <<>>, dir |-> NoPath, kind |-> "ok", has_stage |-> FALSE]

InitStage ==
    /\ fs = [p \in Paths |-> NoNode]
    /\ cwd = [at |-> HomeDir, sub |-> "", alive |-> TRUE]
    /\ stage = NoStage
    /\ sret = NoSRet
    /\ made = 0
    /\ changes = 0
    /\ procs = [p \in Procs |-> Idle]

\* ================================================================ registry
NoRet == [op |-> "init", spec |-> NoSpec, name |-> "", new |-> FALSE,
          kind |-> "ok", inst |-> 0, made |-> 0, cls |-> 0, names |-> <<>>,
          provs |-> {}, cause |-> "", ctor |-> NoExc, file |-> NoFile,
          listed |-> FALSE, seen |-> [n \in PkgNames |-> ""], dropped |-> {}]

\* History: the cached objects of the specs S, when the call is one to drop them.
AskedToDrop(inst, S, drop) ==
    IF drop THEN {<<k, inst[k]>> : k \in DOMAIN inst \cap S} ELSE {}

\* tty.die ends the process.
Dead == ret.kind = "die"

Init ==
    /\ instances = <<>>
    /\ nextInst = 1
    /\ classCache = <<>>
    /\ loads = [n \in PkgNames |-> 0]
    /\ nameCache = <<>>
    /\ provider_index = <<>>
    /\ ret = NoRet
    /\ lastGot = [s \in ConcreteSpecs |-> 0]
    /\ evicted = {}
    /\ graph = [pc |-> "idle", calls |-> 0, names |-> <<>>, i |-> 0,
                out |-> <<>>, deps |-> <<>>]
    /\ InitStage

\* ---------------------------------------------------------------- memoized
\* memoizer: the cache after a call with args whose function call returned
\* value; a function call that raises leaves the cache alone.
memoized(cache, args, value) ==
    IF args \in DOMAIN cache THEN cache ELSE (args :> value) @@ cache

\* ------------------------------------------------- get_class_for_package_name
\* Mutant: the os.access(file_path, os.R_OK) check is missing.
load_class_no_access_check(file, k) ==
    IF ~exists(file.state)
    THEN [kind |-> "UnknownPackageError", cls |-> 0, loaded |-> 0]
    ELSE IF ~isfile(file.state) THEN [kind |-> "die", cls |-> 0, loaded |-> 0]
    ELSE IF file.content = "ok" THEN [kind |-> "ok", cls |-> k, loaded |-> 1]
    ELSE [kind |-> "die", cls |-> 0, loaded |-> 1]

\* The class object of the k-th load of a name is k (> 0).
\* The body of get_class_for_package_name, run on a memo miss.
load_class(file, k) ==
    IF ~exists(file.state)
    THEN [kind |-> "UnknownPackageError", cls |-> 0, loaded |-> 0]
    ELSE IF ~isfile(file.state) THEN [kind |-> "die", cls |-> 0, loaded |-> 0]
    ELSE IF ~access_R_OK(file.state) THEN [kind |-> "die", cls |-> 0, loaded |-> 0]
    ELSE CASE file.content = "ImportError" ->
                [kind |-> "die", cls |-> 0, loaded |-> 1]
           [] file.content = "Error" ->
                [kind |-> "Error", cls |-> 0, loaded |-> 1]
           [] file.content = "noattr" ->
                [kind |-> "AttributeError", cls |-> 0, loaded |-> 1]
           [] file.content = "notclass" ->
                [kind |-> "die", cls |-> 0, loaded |-> 1]
           [] OTHER ->
                [kind |-> "ok", cls |-> k, loaded |-> 1]

\* The memoized method: the result, and the memo cache and load count after it.
get_class_for_package_name(cc, ld, name, file) ==
    IF name \in DOMAIN cc
    THEN [kind |-> "ok", cls |-> cc[name], classCache |-> cc, loads |-> ld,
          file |-> NoFile]
    ELSE LET r == load_class(file, ld[name] + 1) IN
         [kind |-> r.kind, cls |-> r.cls,
          classCache |-> IF r.kind = "ok" THEN memoized(cc, name, r.cls) ELSE cc,
          loads |-> [ld EXCEPT ![name] = @ + r.loaded],
          file |-> file]

\* --------------------------------------------------------------------- get
\* Mutant: the cache is keyed by the package name alone.
cache_key_by_name(spec) == [spec EXCEPT !.version = 0]

\* The key an instance is cached under: spec.copy(), equal to spec.
cache_key(spec) == spec

\* Mutant: get without its check of spec.virtual.
is_virtual_unchecked(spec) == FALSE

\* if spec.virtual: raise UnknownPackageError(spec.name)
is_virtual(spec) == spec.virtual

\* Mutant: new=True clears the whole instance cache.
evict_if_new_clears(inst, spec, new) == IF new THEN <<>> ELSE inst

\* Mutant: new=True is ignored.
evict_if_new_ignored(inst, spec, new) == inst

\* if kwargs.get('new', False): if spec in self.instances: del ...
evict_if_new(inst, spec, new) ==
    IF new /\ cache_key(spec) \in DOMAIN inst
    THEN Restrict(inst, DOMAIN inst \ {cache_key(spec)})
    ELSE inst

\* FailedConstructorError(name, reason): message and str(reason).
FailedConstructorError(name, reason) ==
    [kind |-> "FailedConstructorError", name |-> name, cause |-> str(reason)]

\* Mutant: the cache entry is written before the constructor has returned.
construct_store_first(inst, spec, ctor, id) ==
    [kind |-> IF ctor = Returns THEN "ok" ELSE "FailedConstructorError",
     instances |-> (cache_key(spec) :> id) @@ inst, made |-> 1,
     cause |-> IF ctor = Returns THEN ""
               ELSE FailedConstructorError(spec.name, ctor).cause]

\* self.instances[spec.copy()] = package_class(spec), in its try.
construct(inst, spec, ctor, id) ==
    IF ctor = Returns
    THEN [kind |-> "ok", instances |-> (cache_key(spec) :> id) @@ inst,
          made |-> 1, cause |-> ""]
    ELSE [kind |-> "FailedConstructorError", instances |-> inst, made |-> 0,
          cause |-> FailedConstructorError(spec.name, ctor).cause]

get(inst, cc, ld, id, spec, new, file, ctor) ==
    IF is_virtual(spec)
    THEN [kind |-> "UnknownPackageError", instances |-> inst, classCache |-> cc,
          loads |-> ld, inst |-> 0, made |-> 0, cause |-> "", ctor |-> NoExc,
          file |-> NoFile]
    ELSE LET i1 == evict_if_new(inst, spec, new) IN
         IF cache_key(spec) \in DOMAIN i1
         THEN [kind |-> "ok", instances |-> i1, classCache |-> cc, loads |-> ld,
               inst |-> i1[cache_key(spec)], made |-> 0, cause |-> "",
               ctor |-> NoExc, file |-> NoFile]
         ELSE LET c == get_class_for_package_name(cc, ld, spec.name, file) IN
              IF c.kind # "ok"
              THEN [kind |-> c.kind, instances |-> i1, classCache |-> c.classCache,
                    loads |-> c.loads, inst |-> 0, made |-> 0, cause |-> "",
                    ctor |-> NoExc, file |-> c.file]
              ELSE LET k == construct(i1, spec, ctor, id) IN
                   [kind |-> k.kind, instances |-> k.instances,
                    classCache |-> c.classCache, loads |-> c.loads,
                    inst |-> IF k.kind = "ok" THEN k.instances[cache_key(spec)] ELSE 0,
                    made |-> k.made, cause |-> k.cause, ctor |-> ctor,
                    file |-> c.file]

\* A call draws the package file only when it looks at it, and the
\* constructor's outcome only when it runs the constructor.
Misses(spec, new) ==
    /\ ~is_virtual(spec)
    /\ cache_key(spec) \notin DOMAIN evict_if_new(instances, spec, new)

Get(spec, new) ==
    /\ ~Dead
    /\ \E file \in IF Misses(spec, new) /\ spec.name \notin DOMAIN classCache
                   THEN FileInputs ELSE {GoodFile},
          ctor \in IF Misses(spec, new) THEN CtorOutcomes ELSE {Returns} :
         \E r \in {get(instances, classCache, loads, nextInst, spec, new,
                        file, ctor)} :
         /\ r.file = file \/ file = GoodFile
         /\ r.ctor = ctor \/ ctor = Returns
         /\ r.made = 0 \/ nextInst <= MaxInst
         /\ TotalLoads(r.loads) <= MaxLoads
         /\ instances' = r.instances
         /\ classCache' = r.classCache
         /\ loads' = r.loads
         /\ nextInst' = nextInst + r.made
         /\ ret' = [NoRet EXCEPT !.op = "get", !.spec = spec, !.new = new,
                                 !.kind = r.kind, !.inst = r.inst,
                                 !.made = r.made, !.cause = r.cause,
                                 !.ctor = r.ctor, !.file = r.file,
                                 !.dropped = AskedToDrop(instances, {spec}, new)]
         /\ evicted' = evicted \cup AskedToDrop(instances, {spec}, new)
         /\ lastGot' = IF spec \notin ConcreteSpecs THEN lastGot
                       ELSE [lastGot EXCEPT ![spec] =
                               IF r.kind = "ok" THEN r.inst
                               ELSE IF new THEN 0 ELSE @]
    /\ UNCHANGED <<nameCache, provider_index, graphVars, stageVars>>

\* ------------------------------------------------------------ delete, purge
\* Mutant: delete leaves the entry in place.
delete_keeps(inst, spec) ==
    IF spec \in DOMAIN inst
    THEN [kind |-> "ok", instances |-> inst]
    ELSE [kind |-> "KeyError", instances |-> inst]

\* del self.instances[spec]
delete(inst, spec) ==
    IF spec \in DOMAIN inst
    THEN [kind |-> "ok", instances |-> Restrict(inst, DOMAIN inst \ {spec})]
    ELSE [kind |-> "KeyError", instances |-> inst]

Delete(spec) ==
    /\ ~Dead
    /\ \E r \in {delete(instances, spec)} :
         /\ instances' = r.instances
         /\ ret' = [NoRet EXCEPT !.op = "delete", !.spec = spec, !.kind = r.kind,
                                 !.dropped = AskedToDrop(instances, {spec}, TRUE)]
         /\ evicted' = evicted \cup AskedToDrop(instances, {spec}, TRUE)
         /\ lastGot' = IF spec \in ConcreteSpecs
                       THEN [lastGot EXCEPT ![spec] = 0] ELSE lastGot
    /\ UNCHANGED <<nextInst, classCache, loads, nameCache, provider_index,
                   graphVars, stageVars>>

\* self.instances.clear()
purge(inst) == <<>>

Purge ==
    /\ ~Dead
    /\ instances' = purge(instances)
    /\ ret' = [NoRet EXCEPT !.op = "purge",
                            !.dropped = AskedToDrop(instances, Specs, TRUE)]
    /\ evicted' = evicted \cup AskedToDrop(instances, Specs, TRUE)
    /\ lastGot' = [s \in ConcreteSpecs |-> 0]
    /\ UNCHANGED <<nextInst, classCache, loads, nameCache, provider_index,
                   graphVars, stageVars>>

GetClass(name) ==
    /\ ~Dead
    /\ \E file \in IF name \notin DOMAIN classCache THEN FileInputs ELSE {GoodFile} :
         \E r \in {get_class_for_package_name(classCache, loads, name, file)} :
         /\ r.file = file \/ file = GoodFile
         /\ TotalLoads(r.loads) <= MaxLoads
         /\ classCache' = r.classCache
         /\ loads' = r.loads
         /\ ret' = [NoRet EXCEPT !.op = "get_class_for_package_name",
                                 !.name = name, !.kind = r.kind, !.cls = r.cls,
                                 !.file = r.file]
    /\ UNCHANGED <<instances, nextInst, nameCache, provider_index, lastGot,
                   evicted, graphVars, stageVars>>

NextDB ==
    \/ \E spec \in Specs, new \in BOOLEAN : Get(spec, new)
    \/ \E spec \in Specs : Delete(spec)
    \/ Purge
    \/ \E name \in PkgNames : GetClass(name)

SpecDB == Init /\ [][NextDB]_vars

\* --------------------------------------------------------- all_package_names
\* The orders os.listdir can return the entries S in.
Listings(S) ==
    {l \in [1..Cardinality(S) -> S] : \A i, j \in 1..Cardinality(S) :
                                        l[i] = l[j] => i = j}

\* Mutant: the list is never sorted.
sort_omitted(l) == l

\* list.sort(): the names in string order.
RECURSIVE sort(_)
sort(l) ==
    IF Len(l) < 2 THEN l
    ELSE LET front == sort(SubSeq(l, 1, Len(l) - 1))
             x == l[Len(l)]
             before == SelectSeq(front, LAMBDA y : NameRank(y) <= NameRank(x))
             after == SelectSeq(front, LAMBDA y : NameRank(y) > NameRank(x))
         IN before \o <<x>> \o after

\* The loop of all_package_names over os.listdir(root), from entry i on;
\* f is the state of each entry's package.py.
RECURSIVE list_packages(_, _, _, _)
list_packages(f, listing, i, acc) ==
    IF i > Len(listing) THEN acc
    ELSE LET pkg_name == listing[i]
             added == IF isfile(f[pkg_name]) THEN Append(acc, pkg_name) ELSE acc
         IN list_packages(f, listing, i + 1, sort(added))

\* The memoized method: its memo cache after the call; the list it returns
\* is the cache's entry for ().
all_package_names(cache, f, listing) ==
    memoized(cache, <<>>, list_packages(f, listing, 1, <<>>))

\* What a call may find under root: the state of each package.py, and the
\* directory listing, which holds at least every entry with a package.py.
RootInputs ==
    {[f |-> f, listing |-> l] :
       f \in [PkgNames -> FileStates],
       l \in UNION {Listings(S) : S \in SUBSET PkgNames}}

RootInput(in) == {n \in PkgNames : in.f[n] # "absent"} \subseteq Range(in.listing)

NoRoot == [f |-> [n \in PkgNames |-> ""], listing |-> <<>>]

AllPackageNames ==
    /\ ~Dead
    /\ \E in \in IF <<>> \in DOMAIN nameCache THEN {NoRoot} ELSE RootInputs :
         /\ in = NoRoot \/ RootInput(in)
         /\ nameCache' = all_package_names(nameCache, in.f, in.listing)
         /\ ret' = [NoRet EXCEPT !.op = "all_package_names",
                                 !.names = nameCache'[<<>>],
                                 !.listed = (in # NoRoot), !.seen = in.f]
    /\ UNCHANGED <<instances, nextInst, classCache, loads, provider_index,
                   lastGot, evicted, graphVars, stageVars>>

\* ------------------------------------------------------------ providers_for
\* ProviderIndex(names): virtual name -> the names among names whose recipe
\* provides it.
ProviderIndex(names) ==
    [v \in VirtualNames |-> {n \in Range(names) : v \in provided(n)}]

\* Mutant: a call that raises UnknownPackageError drops the index it built.
providers_for_drops_index(index, names, vpkg) ==
    LET built == IF index = <<>> THEN <<ProviderIndex(names)>> ELSE index
        providers == built[1][vpkg]
    IN IF providers = {}
       THEN [kind |-> "UnknownPackageError", provs |-> {}, index |-> <<>>]
       ELSE [kind |-> "ok", provs |-> providers, index |-> built]

\* Mutant: an empty result is returned instead of raised.
providers_for_no_raise(index, names, vpkg) ==
    LET built == IF index = <<>> THEN <<ProviderIndex(names)>> ELSE index
    IN [kind |-> "ok", provs |-> built[1][vpkg], index |-> built]

\* providers_for, given the list all_package_names() returns if it is called.
providers_for(index, names, vpkg) ==
    LET built == IF index = <<>> THEN <<ProviderIndex(names)>> ELSE index
        providers == built[1][vpkg]
    IN IF providers = {}
       THEN [kind |-> "UnknownPackageError", provs |-> {}, index |-> built]
       ELSE [kind |-> "ok", provs |-> providers, index |-> built]

ProvidersFor(vpkg) ==
    /\ ~Dead
    /\ \E in \in IF provider_index # <<>> \/ <<>> \in DOMAIN nameCache
                 THEN {NoRoot} ELSE RootInputs :
         /\ in = NoRoot \/ RootInput(in)
         /\ nameCache' = IF provider_index = <<>>
                         THEN all_package_names(nameCache, in.f, in.listing)
                         ELSE nameCache
         /\ \E r \in {providers_for(provider_index,
                                     IF provider_index = <<>>
                                     THEN nameCache'[<<>>] ELSE <<>>, vpkg)} :
              /\ provider_index' = r.index
              /\ ret' = [NoRet EXCEPT !.op = "providers_for", !.name = vpkg,
                                      !.kind = r.kind, !.provs = r.provs,
                                      !.listed = (in # NoRoot), !.seen = in.f]
    /\ UNCHANGED <<instances, nextInst, classCache, loads, lastGot, evicted,
                   graphVars, stageVars>>

NextNames ==
    \/ AllPackageNames
    \/ \E vpkg \in VirtualNames : ProvidersFor(vpkg)

SpecNames == Init /\ [][NextNames]_vars

\* providers_for beside the calls that change the instance cache.
NextIndex ==
    \/ AllPackageNames
    \/ \E vpkg \in VirtualNames : ProvidersFor(vpkg)
    \/ \E new \in BOOLEAN :
         Get([name |-> "zlib", version |-> 1, virtual |-> FALSE], new)
    \/ Delete([name |-> "zlib", version |-> 1, virtual |-> FALSE])
    \/ Purge

SpecIndex == Init /\ [][NextIndex]_vars

\* -------------------------------------------------------- graph_dependencies
\* spack.spec.Spec(name), as _autospec builds it from a package name.
Spec_(name) == [name |-> name, version |-> 0, virtual |-> FALSE]

\* Lines of out.  text: the line a;  node: '  "a" [label="b"]';
\* edge: '  "a" -> "b"'.
text_line(s) == [kind |-> "text", a |-> s, b |-> ""]
node_line(name) == [kind |-> "node", a |-> name, b |-> name]
edge_line(pair) == [kind |-> "edge", a |-> pair[1], b |-> pair[2]]

\* Mutant: the pair is (dep_name, pkg.name).
dependency_edges_reversed(name, depOrder) ==
    [i \in 1..Len(depOrder) |-> <<depOrder[i], name>>]

\* deps.append((pkg.name, dep_name)) for the keys of pkg.dependencies, in
\* the order iteritems() yields them.
dependency_edges(name, depOrder) ==
    [i \in 1..Len(depOrder) |-> <<name, depOrder[i]>>]

\* Mutant: the names of the entries, without set().
provider_names_listed(entries) ==
    [i \in 1..Len(entries) |-> entries[i].name]

\* set(p.name for p in pkg.provided), in an order the set can be iterated
\* in: each name once.
RECURSIVE provider_names(_)
provider_names(entries) ==
    IF entries = <<>> THEN <<>>
    ELSE LET front == provider_names(SubSeq(entries, 1, Len(entries) - 1))
             x == entries[Len(entries)].name
         IN IF x \in Range(front) THEN front ELSE Append(front, x)

\* deps.append((provider, pkg.name)) for each name of the set.
provided_edges(name, entries) ==
    LET names == provider_names(entries)
    IN [i \in 1..Len(names) |-> <<names[i], name>>]

\* The body of the loop for one package object.
graph_package(g, name, depOrder, entries) ==
    [g EXCEPT !.out = Append(@, node_line(name)),
              !.deps = @ \o dependency_edges(name, depOrder)
                         \o provided_edges(name, entries),
              !.i = @ + 1]

\* The header, and the first step of the generator all_packages().
GraphBegin ==
    /\ ~Dead
    /\ graph.pc # "walk"
    /\ graph.calls < MaxGraphs
    /\ \E in \in IF <<>> \in DOMAIN nameCache THEN {NoRoot} ELSE RootInputs :
         /\ in = NoRoot \/ RootInput(in)
         /\ nameCache' = all_package_names(nameCache, in.f, in.listing)
         /\ graph' = [pc |-> "walk", calls |-> graph.calls + 1,
                      names |-> nameCache'[<<>>], i |-> 1,
                      out |-> <<text_line("digraph G {"),
                                text_line("  label = \"Spack Dependencies\""),
                                text_line("  labelloc = \"b\""),
                                text_line("  rankdir = \"LR\""),
                                text_line("  ranksep = \"5\""),
                                text_line("")>>,
                      deps |-> <<>>]
         /\ ret' = [NoRet EXCEPT !.op = "graph_dependencies",
                                 !.names = nameCache'[<<>>],
                                 !.listed = (in # NoRoot), !.seen = in.f]
    /\ UNCHANGED <<instances, nextInst, classCache, loads, provider_index,
                   lastGot, evicted, stageVars>>

\* One turn of the loop: self.get(name), then the node and the pairs.  An
\* exception of get ends graph_dependencies.
GraphPackage ==
    /\ ~Dead
    /\ graph.pc = "walk"
    /\ graph.i <= Len(graph.names)
    /\ \E spec \in {Spec_(graph.names[graph.i])} :
       \E file \in IF Misses(spec, FALSE) /\ spec.name \notin DOMAIN classCache
                   THEN FileInputs ELSE {GoodFile},
          ctor \in IF Misses(spec, FALSE) THEN CtorOutcomes ELSE {Returns},
          depOrder \in Listings(dependencies(spec.name)),
          entries \in Listings(provided_specs(spec.name)) :
         \E r \in {get(instances, classCache, loads, nextInst, spec, FALSE,
                        file, ctor)} :
         /\ r.file = file \/ file = GoodFile
         /\ r.ctor = ctor \/ ctor = Returns
         /\ instances' = r.instances
         /\ classCache' = r.classCache
         /\ loads' = r.loads
         /\ nextInst' = nextInst + r.made
         /\ graph' = IF r.kind = "ok"
                     THEN graph_package(graph, spec.name, depOrder, entries)
                     ELSE [graph EXCEPT !.pc = "failed"]
         /\ ret' = [NoRet EXCEPT !.op = "graph_dependencies", !.spec = spec,
                                 !.kind = r.kind, !.inst = r.inst,
                                 !.made = r.made, !.cause = r.cause,
                                 !.ctor = r.ctor, !.file = r.file]
    /\ UNCHANGED <<nameCache, provider_index, lastGot, evicted, stageVars>>

\* After the loop: the blank line, one line per pair of deps, the brace.
GraphEnd ==
    /\ ~Dead
    /\ graph.pc = "walk"
    /\ graph.i > Len(graph.names)
    /\ graph' = [graph EXCEPT
                   !.pc = "done",
                   !.out = Append(@ \o <<text_line("")>>
                                    \o [k \in 1..Len(graph.deps) |->
                                          edge_line(graph.deps[k])],
                                  text_line("}"))]
    /\ ret' = [NoRet EXCEPT !.op = "graph_dependencies", !.names = graph.names]
    /\ UNCHANGED <<instances, nextInst, classCache, loads, nameCache,
                   provider_index, lastGot, evicted, stageVars>>

NextGraph ==
    \/ GraphBegin
    \/ GraphPackage
    \/ GraphEnd

SpecGraph == Init /\ [][NextGraph]_vars

\* ------------------------------------------------------------- find_tmp_root
RECURSIVE first_candidate(_, _)
first_candidate(cands, i) ==
    IF i > Len(tmp_dirs) THEN NoTmp
    ELSE IF cands[i] # "uncreatable" THEN tmp_dirs[i]
    ELSE first_candidate(cands, i + 1)

find_tmp_root(use_tmp_stage, cands) ==
    IF use_tmp_stage THEN first_candidate(cands, 1) ELSE NoTmp

\* What find_tmp_root found the candidates it tried to be, in order: all of
\* them up to the one it returned.
probed(use_tmp_stage, cands) ==
    IF ~use_tmp_stage THEN <<>>
    ELSE SubSeq(cands, 1,
                IF \E i \in DOMAIN cands : cands[i] # "uncreatable"
                THEN CHOOSE i \in DOMAIN cands :
                       /\ cands[i] # "uncreatable"
                       /\ \A j \in 1..(i - 1) : cands[j] = "uncreatable"
                ELSE Len(cands))

\* Whether mkdtemp can create a directory in root.
Writable(root, cands) ==
    \/ root = stage_path
    \/ \E i \in 1..Len(tmp_dirs) : tmp_dirs[i] = root /\ cands[i] = "writable"

\* ------------------------------------------------------ _cleanup_dead_links
\* Mutant: every link below the stage root is removed.
cleanup_all_links(f) ==
    [p \in Paths |->
       IF p.root = stage_path /\ os_path_islink(f, p) THEN NoNode ELSE f[p]]

_cleanup_dead_links(f) ==
    [p \in Paths |->
       IF p.root = stage_path /\ os_path_islink(f, p) /\ ~os_path_exists(f, p)
       THEN NoNode ELSE f[p]]

\* ----------------------------------------------------- _need_to_create_path
\* Mutant: a link that points at the right spot is unlinked all the same.
need_to_create_path_relinks(f, path, tmp_root, use_tmp_stage) ==
    IF ~os_path_exists(f, path)
    THEN [kind |-> "ok", create |-> TRUE, fs |-> f]
    ELSE IF ~os_path_isdir(f, path)
    THEN [kind |-> "ok", create |-> TRUE, fs |-> os_unlink(f, path)]
    ELSE IF os_path_islink(f, path)
    THEN IF tmp_root = NoTmp
         THEN [kind |-> "AttributeError", create |-> FALSE, fs |-> f]
         ELSE [kind |-> "ok", create |-> TRUE, fs |-> os_unlink(f, path)]
    ELSE [kind |-> "ok", create |-> FALSE, fs |-> f]

\* create: the value returned; fs: the file system it leaves.  With tmp_root
\* None, os.path.realpath(self.tmp_root) raises AttributeError.
_need_to_create_path(f, path, tmp_root, use_tmp_stage) ==
    IF ~os_path_exists(f, path)
    THEN [kind |-> "ok", create |-> TRUE, fs |-> f]
    ELSE IF ~os_path_isdir(f, path)
    THEN [kind |-> "ok", create |-> TRUE, fs |-> os_unlink(f, path)]
    ELSE IF os_path_islink(f, path)
    THEN IF tmp_root = NoTmp
         THEN [kind |-> "AttributeError", create |-> FALSE, fs |-> f]
         ELSE IF use_tmp_stage
         THEN IF /\ startswith(os_path_realpath(f, path), tmp_root)
                 /\ os_path_exists(f, os_path_realpath(f, path))
              THEN [kind |-> "ok", create |-> FALSE, fs |-> f]
              ELSE [kind |-> "ok", create |-> TRUE, fs |-> os_unlink(f, path)]
         ELSE [kind |-> "ok", create |-> TRUE, fs |-> os_unlink(f, path)]
    ELSE [kind |-> "ok", create |-> FALSE, fs |-> f]

\* -------------------------------------------------------------------- _setup
\* ensure_access(self.path) on the file system f that _setup made.
ensure_access(f, name, path, created, access) ==
    [kind |-> IF access THEN "ok" ELSE "die", fs |-> f, name |-> name,
     path |-> path, created |-> created]

\* os.symlink(tmp_dir, path), then ensure_access; OSError when path exists.
link_in(f, tmp_dir, name, path, access) ==
    IF f[path].type # "none"
    THEN [kind |-> "OSError", fs |-> f, name |-> name, path |-> path,
          created |-> TRUE]
    ELSE ensure_access(os_symlink(f, tmp_dir, path), name, path, TRUE, access)

\* The directory tempfile.mkdtemp is called on, "" when it is not called.
mkdtemp_root(f, name, tmp_root, use_tmp_stage, cands) ==
    IF name = NoName
    THEN IF tmp_root = NoTmp THEN stage_path
         ELSE IF Writable(tmp_root, cands) THEN tmp_root ELSE ""
    ELSE IF tmp_root = NoTmp \/ ~Writable(tmp_root, cands) THEN ""
    ELSE IF _need_to_create_path(_cleanup_dead_links(f),
                                 join_path(stage_path, name), tmp_root,
                                 use_tmp_stage).create
         THEN tmp_root ELSE ""

\* _setup of a stage called name (NoName: unnamed), where mkdtemp makes up
\* tmpname if it is called.
_setup(f, name, tmp_root, use_tmp_stage, cands, tmpname, access) ==
    LET f1 == _cleanup_dead_links(f)
        given == join_path(stage_path, name)
        made_up == join_path(stage_path, tmpname)
        tmp_dir == join_path(tmp_root, tmpname)
        failed(kind, f2, n, p) ==
            [kind |-> kind, fs |-> f2, name |-> n, path |-> p,
             created |-> FALSE]
    IN IF tmp_root # NoTmp
       THEN IF name = NoName
            THEN IF ~Writable(tmp_root, cands)
                 THEN failed("OSError", f1, NoName, NoPath)
                 ELSE LET need == _need_to_create_path(mkdtemp(f1, tmp_dir),
                                     made_up, tmp_root, use_tmp_stage)
                      IN IF need.kind # "ok"
                         THEN failed(need.kind, need.fs, tmpname, made_up)
                         ELSE IF need.create
                         THEN link_in(need.fs, tmp_dir, tmpname, made_up, access)
                         ELSE ensure_access(need.fs, tmpname, made_up, FALSE,
                                            access)
            ELSE LET need == _need_to_create_path(f1, given, tmp_root,
                                                  use_tmp_stage)
                 IN IF need.kind # "ok"
                    THEN failed(need.kind, need.fs, name, given)
                    ELSE IF ~need.create
                    THEN ensure_access(need.fs, name, given, FALSE, access)
                    ELSE IF ~Writable(tmp_root, cands)
                    THEN failed("OSError", need.fs, name, given)
                    ELSE link_in(mkdtemp(need.fs, tmp_dir), tmp_dir, name,
                                 given, access)
       ELSE IF name = NoName
            THEN ensure_access(mkdtemp(f1, made_up), tmpname, made_up, TRUE,
                               access)
            ELSE LET need == _need_to_create_path(f1, given, tmp_root,
                                                  use_tmp_stage)
                 IN IF need.kind # "ok"
                    THEN failed(need.kind, need.fs, name, given)
                    ELSE IF need.create
                    THEN ensure_access(mkdirp(need.fs, given), name, given,
                                       TRUE, access)
                    ELSE ensure_access(need.fs, name, given, FALSE, access)

\* Stage(url_or_fetch_strategy, name=name, mirror_path=...): find_tmp_root,
\* then _setup.  An exception leaves no new Stage object.
Construct(name, args, use_tmp_stage, cands, access) ==
    /\ ~StageDead
    /\ made < MaxStages
    /\ \E tmp_root \in {find_tmp_root(use_tmp_stage, cands)} :
       \E root \in {mkdtemp_root(fs, name, tmp_root, use_tmp_stage, cands)} :
       \E tmpname \in IF root = "" THEN {""}
                      ELSE {n \in TmpNames :
                              _cleanup_dead_links(fs)[join_path(root, n)].type
                                = "none"} :
       \E r \in {_setup(fs, name, tmp_root, use_tmp_stage, cands, tmpname,
                        access)} :
         /\ fs' = r.fs
         /\ stage' = IF r.kind = "ok"
                     THEN [name |-> r.name, path |-> r.path,
                           tmp_root |-> tmp_root,
                           mirror_path |-> args.mirror_path,
                           fetcher |-> args.fetcher]
                     ELSE stage
         /\ sret' = [NoSRet EXCEPT !.op = "Stage", !.kind = r.kind,
                                   !.name = name, !.path = r.path,
                                   !.use_tmp = use_tmp_stage,
                                   !.tmp_root = tmp_root,
                                   !.writable = Writable(tmp_root, cands),
                                   !.probed = probed(use_tmp_stage, cands),
                                   !.access = access, !.created = r.created]
    /\ made' = made + 1
    /\ UNCHANGED <<cwd, changes, procs,
                   registryVars, graphVars>>

\* ------------------------------------------------------------------- destroy
remove_linked_tree(f, path) ==
    IF os_path_exists(f, path)
    THEN IF os_path_islink(f, path)
         THEN os_unlink(rmtree(f, os_path_realpath(f, path)), path)
         ELSE rmtree(f, path)
    ELSE f

\* Mutant: the working directory is never looked at.
getcwd_skipped(c, path) == c

\* try: os.getcwd()  except OSError: os.chdir(os.path.dirname(self.path))
getcwd_or_chdir(c, path) ==
    IF c.alive THEN c
    ELSE [at |-> dirname(path), sub |-> "", alive |-> TRUE]

\* Mutant: shutil.rmtree without ignore_errors, so what is not a directory
\* raises OSError.
destroy_strict(f, c, path) ==
    LET f2 == remove_linked_tree(f, path)
    IN [kind |-> IF os_path_exists(f, path) /\ ~os_path_isdir(f, path)
                 THEN "OSError" ELSE "ok",
        fs |-> f2,
        cwd |-> getcwd_or_chdir(after_removal(c, f, f2), path)]

\* Stage.destroy
destroy(f, c, path) ==
    LET f2 == remove_linked_tree(f, path)
    IN [kind |-> "ok", fs |-> f2,
        cwd |-> getcwd_or_chdir(after_removal(c, f, f2), path)]

Destroy ==
    /\ ~StageDead
    /\ stage # NoStage
    /\ \E r \in {destroy(fs, cwd, stage.path)} :
         /\ fs' = r.fs
         /\ cwd' = r.cwd
         /\ sret' = [NoSRet EXCEPT !.op = "destroy", !.kind = r.kind,
                                   !.name = stage.name, !.path = stage.path]
    /\ UNCHANGED <<stage, made, changes, procs,
                   registryVars, graphVars>>

\* --------------------------------------------------------------------- fetch
\* The mirrors of the configuration, in the order of its sections.
MirrorLists == {<<>>, <<"m1">>, <<"m1", "m2">>, <<"m2", "m1">>}
\* How fetcher.fetch() ends: it returns, raises a spack.error.SpackError
\* (FetchError, ChecksumError), or raises another exception.
FetchOutcomes == {"ok", "SpackError", "Error"}

\* "%s/%s" % (m, self.mirror_path)
mirror_url(m, mirror_path) == [base |-> m, path |-> mirror_path]

\* Mutant: the mirror fetchers are built without the digest.
fetchers_without_digest(s, mirrors) ==
    IF s.mirror_path # NoMirrorPath
    THEN [i \in 1..Len(mirrors) |->
            URLFetchStrategy(mirror_url(mirrors[i], s.mirror_path), "")]
         \o <<s.fetcher>>
    ELSE <<s.fetcher>>

\* Mutant: the primary fetcher comes first.
fetchers_primary_first(s, mirrors) ==
    IF s.mirror_path # NoMirrorPath
    THEN <<s.fetcher>> \o
         [i \in 1..Len(mirrors) |->
            URLFetchStrategy(mirror_url(mirrors[i], s.mirror_path),
                             IF s.fetcher.type = "url" THEN s.fetcher.digest
                             ELSE "")]
    ELSE <<s.fetcher>>

\* The list fetchers of Stage.fetch.
fetchers(s, mirrors) ==
    IF s.mirror_path # NoMirrorPath
    THEN [i \in 1..Len(mirrors) |->
            URLFetchStrategy(mirror_url(mirrors[i], s.mirror_path),
                             IF s.fetcher.type = "url" THEN s.fetcher.digest
                             ELSE "")]
         \o <<s.fetcher>>
    ELSE <<s.fetcher>>

\* Mutant: the loop without its except clause; the first fetcher that
\* raises ends fetch with its exception.
try_fetchers_uncaught(outcomes, i, tried) ==
    IF i > Len(outcomes) THEN [kind |-> "ok", tried |-> tried, won |-> 0]
    ELSE IF outcomes[i] = "ok"
    THEN [kind |-> "ok", tried |-> Append(tried, i), won |-> i]
    ELSE [kind |-> outcomes[i], tried |-> Append(tried, i), won |-> 0]

\* The loop over fetchers from the i-th on: the attempts started, in order,
\* and the one that returned (0: none).
RECURSIVE try_fetchers(_, _, _)
try_fetchers(outcomes, i, tried) ==
    IF i > Len(outcomes) THEN [kind |-> "ok", tried |-> tried, won |-> 0]
    ELSE IF outcomes[i] = "ok"
    THEN [kind |-> "ok", tried |-> Append(tried, i), won |-> i]
    ELSE IF outcomes[i] = "SpackError"
    THEN try_fetchers(outcomes, i + 1, Append(tried, i))
    ELSE [kind |-> "Error", tried |-> Append(tried, i), won |-> 0]

\* A fetcher that returns leaves the archive (or the checkout) in the stage.
fetched(f, path) ==
    LET dir == os_path_realpath(f, path)
    IN IF f[dir].content = "empty"
       THEN [f EXCEPT ![dir] = DirNode("archive")] ELSE f

\* Stage.fetch, under the mirrors of the configuration and the outcome of
\* each fetcher if it is tried.
Fetch(mirrors, outcomes) ==
    /\ ~StageDead
    /\ stage # NoStage
    /\ Len(outcomes) = Len(fetchers(stage, mirrors))
    /\ IF ~os_path_isdir(fs, stage.path)
       THEN /\ sret' = [NoSRet EXCEPT !.op = "fetch", !.kind = "die",
                                      !.name = stage.name, !.path = stage.path]
            /\ UNCHANGED <<fs, cwd>>
       ELSE \E r \in {try_fetchers(outcomes, 1, <<>>)} :
              /\ cwd' = os_chdir(fs, stage.path)
              /\ fs' = IF r.won # 0 THEN fetched(fs, stage.path) ELSE fs
              /\ sret' = [NoSRet EXCEPT !.op = "fetch", !.kind = r.kind,
                                        !.name = stage.name,
                                        !.path = stage.path,
                                        !.attempts = fetchers(stage, mirrors),
                                        !.tried = r.tried,
                                        !.won = r.won,
                                        !.outcomes = outcomes,
                                        !.mirrors = mirrors]
    /\ UNCHANGED <<stage, made, changes, procs,
                   registryVars, graphVars>>

\* --------------------------------------------- expand_archive, chdir_to_source
\* self.fetcher.expand(): the archive becomes what it holds, beside it.
ExpandArchive(holds) ==
    /\ ~StageDead
    /\ stage # NoStage
    /\ LET dir == os_path_realpath(fs, stage.path)
       IN IF os_path_isdir(fs, stage.path) /\ fs[dir].content = "archive"
          THEN /\ fs' = [fs EXCEPT ![dir] = DirNode(holds)]
               /\ sret' = [NoSRet EXCEPT !.op = "expand_archive",
                                         !.name = stage.name,
                                         !.path = stage.path]
          ELSE /\ fs' = fs
               /\ sret' = [NoSRet EXCEPT !.op = "expand_archive",
                                         !.kind = "SpackError",
                                         !.name = stage.name,
                                         !.path = stage.path]
    /\ UNCHANGED <<cwd, stage, made, changes, procs,
                   registryVars, graphVars>>

\* Mutant: the first entry of the listing, directory or not.
source_path_any_entry(listing, i) ==
    IF i > Len(listing) THEN NoEntry ELSE listing[i]

\* source_path: the loop over os.listdir(self.path) from the i-th entry on;
\* the first entry that is a directory, None (NoEntry) when there is none.
RECURSIVE source_path(_, _)
source_path(listing, i) ==
    IF i > Len(listing) THEN NoEntry
    ELSE IF listing[i].type = "dir" THEN listing[i]
    ELSE source_path(listing, i + 1)

\* chdir_to_source, where os.listdir(self.path) returns the entries in the
\* order of listing.
ChdirToSource ==
    /\ ~StageDead
    /\ stage # NoStage
    /\ IF ~os_path_isdir(fs, stage.path)
       THEN /\ cwd' = cwd
            /\ sret' = [NoSRet EXCEPT !.op = "chdir_to_source",
                                      !.kind = "OSError", !.name = stage.name,
                                      !.path = stage.path]
       ELSE \E listing \in Listings(listdir(fs, stage.path)) :
            \E path \in {source_path(listing, 1)} :
              /\ cwd' = IF path = NoEntry THEN cwd
                        ELSE [os_chdir(fs, stage.path) EXCEPT !.sub = path.name]
              /\ sret' = [NoSRet EXCEPT
                            !.op = "chdir_to_source",
                            !.kind = IF path = NoEntry \/ path.empty
                                     THEN "die" ELSE "ok",
                            !.name = stage.name, !.path = stage.path,
                            !.listing = listing]
    /\ UNCHANGED <<fs, stage, made, changes, procs,
                   registryVars, graphVars>>

\* ------------------------------------------------------------------- restage
\* StageError.__init__ calls super(self, StageError): super() is given the
\* instance where it takes the class and raises TypeError, whatever the
\* class cls of the instance.
StageError(cls, message) ==
    [kind |-> "TypeError", message |-> "must be type"]
RestageError(message) == StageError("RestageError", message)
ChdirError(message) == StageError("ChdirError", message)

\* raise cls(message), for the two subclasses of StageError.
Raise(cls) ==
    /\ ~StageDead
    /\ \E x \in {IF cls = "RestageError" THEN RestageError("message")
                  ELSE ChdirError("message")} :
         sret' = [NoSRet EXCEPT !.op = "raise", !.kind = x.kind,
                                !.raised = cls]
    /\ UNCHANGED <<fs, cwd, stage, made, changes, procs,
                   registryVars, graphVars>>

\* self.fetcher.reset(): without a fetched archive it raises RestageError;
\* with one it expands it again.
Restage(holds) ==
    /\ ~StageDead
    /\ stage # NoStage
    /\ LET dir == os_path_realpath(fs, stage.path)
       IN IF ~os_path_isdir(fs, stage.path) \/ fs[dir].content = "empty"
          THEN /\ fs' = fs
               /\ sret' = [NoSRet EXCEPT
                             !.op = "restage",
                             !.kind = RestageError("before fetch").kind,
                             !.raised = "RestageError",
                             !.name = stage.name, !.path = stage.path]
          ELSE /\ fs' = IF fs[dir].content = "archive"
                        THEN [fs EXCEPT ![dir] = DirNode(holds)] ELSE fs
               /\ sret' = [NoSRet EXCEPT !.op = "restage",
                                         !.name = stage.name,
                                         !.path = stage.path]
    /\ UNCHANGED <<cwd, stage, made, changes, procs,
                   registryVars, graphVars>>

\* ------------------------------------------------------------ other programs
\* What another program can put at the path of the named stage: a file, a
\* directory, or a link to a temporary directory that it creates (mk) or
\* that it does not create.
ExternalReplace(node, mk) ==
    /\ ~StageDead
    /\ changes < MaxChanges
    /\ node # fs[NamedPath]
    /\ LET f1 == [fs EXCEPT ![NamedPath] = node]
           f2 == IF node.type = "link" /\ mk /\ fs[node.target].type = "none"
                 THEN [f1 EXCEPT ![node.target] = DirNode("empty")] ELSE f1
       IN /\ fs' = f2
          /\ cwd' = IF cwd.at = NamedPath THEN [cwd EXCEPT !.alive = FALSE]
                    ELSE cwd
    /\ changes' = changes + 1
    /\ sret' = [NoSRet EXCEPT !.op = "external"]
    /\ UNCHANGED <<stage, made, procs,
                   registryVars, graphVars>>

\* A cleaner of temporary files removes a temporary directory.
TmpReaped(p) ==
    /\ ~StageDead
    /\ changes < MaxChanges
    /\ fs[p].type = "dir"
    /\ fs' = rmtree(fs, p)
    /\ cwd' = after_removal(cwd, fs, fs')
    /\ changes' = changes + 1
    /\ sret' = [NoSRet EXCEPT !.op = "external"]
    /\ UNCHANGED <<stage, made, procs,
                   registryVars, graphVars>>

\* The temporary directories other programs link to: one below the first
\* of tmp_dirs (outside tmp_root when that is the second), one below Beside.
ExternalTargets ==
    {join_path(tmp_dirs[1], "spack-stage-2"), join_path(Beside, "old-stage")}

ExternalNodes == {FileNode} \cup {LinkNode(t) : t \in ExternalTargets}

\* The candidates of a configuration whose directories are writable or
\* cannot be created.
PlainCandidates == {c \in Candidates : \A i \in DOMAIN c : c[i] # "readonly"}

\* The life of the named stage, beside other programs.
NextStage ==
    \/ \E use_tmp_stage \in BOOLEAN, cands \in PlainCandidates,
          access \in BOOLEAN :
         Construct("foo", PlainArgs, use_tmp_stage, cands, access)
    \/ \E outcomes \in [1..1 -> {"ok", "SpackError"}] : Fetch(<<>>, outcomes)
    \/ ExpandArchive("expanded")
    \/ ChdirToSource
    \/ Destroy
    \/ \E node \in ExternalNodes, mk \in BOOLEAN : ExternalReplace(node, mk)
    \/ \E p \in TmpPaths : TmpReaped(p)

SpecStage == Init /\ [][NextStage]_vars

\* Named and unnamed stages under every configuration, beside other
\* programs.
NextSetup ==
    \/ \E name \in {"foo", NoName}, use_tmp_stage \in BOOLEAN,
          cands \in Candidates, access \in BOOLEAN :
         Construct(name, PlainArgs, use_tmp_stage, cands, access)
    \/ Destroy
    \/ \E node \in ExternalNodes, mk \in BOOLEAN : ExternalReplace(node, mk)
    \/ \E p \in TmpPaths : TmpReaped(p)

SpecSetup == Init /\ [][NextSetup]_vars

\* The stages of one configuration without temporary staging, and fetch
\* under every list of mirrors.
NextFetch ==
    \/ \E args \in StageArgs :
         Construct("foo", args, FALSE, [i \in 1..Len(tmp_dirs) |-> "writable"],
                   TRUE)
    \/ \E mirrors \in MirrorLists :
         \E outcomes \in [1..(Len(mirrors) + 1) -> FetchOutcomes]
                         \cup [1..1 -> FetchOutcomes] :
           Fetch(mirrors, outcomes)

SpecFetch == Init /\ [][NextFetch]_vars

\* The life of the named stage from fetch to the source directory, under
\* one configuration, with every kind of archive.
NextSource ==
    \/ \E use_tmp_stage \in BOOLEAN :
         Construct("foo", PlainArgs, use_tmp_stage,
                   [i \in 1..Len(tmp_dirs) |-> "writable"], TRUE)
    \/ \E outcomes \in [1..1 -> {"ok", "SpackError"}] : Fetch(<<>>, outcomes)
    \/ \E holds \in ArchiveKinds : ExpandArchive(holds)
    \/ \E holds \in ArchiveKinds : Restage(holds)
    \/ \E cls \in {"RestageError", "ChdirError"} : Raise(cls)
    \/ ChdirToSource
    \/ Destroy

SpecSource == Init /\ [][NextSource]_vars

\* ------------------------------------------- _setup and destroy, call by call
\* What the actions of a process leave alone.
procFrame == <<cwd, stage, sret, changes, registryVars, graphVars>>

\* The call after the hygiene pass has looked at the entries before todo.
after_cleanup(todo) == IF todo = <<>> THEN "need" ELSE "cleanup"

\* os.unlink(path) by a process: OSError when nothing or a directory is there.
unlink_or_raise(p, path, pc) ==
    IF fs[path].type \in {"link", "file"}
    THEN /\ fs' = os_unlink(fs, path)
         /\ procs' = [procs EXCEPT ![p].pc = pc]
    ELSE /\ fs' = fs
         /\ procs' = [procs EXCEPT ![p].pc = "done", ![p].kind = "OSError"]

\* Stage(url, name='foo') in a run whose find_tmp_root() returns tmp_root,
\* as it does in every run on this stage root: mkdirp(spack.stage_path) and
\* the os.listdir of _cleanup_dead_links.
SetupStart(p, tmp_root) ==
    /\ procs[p].pc = "done"
    /\ made < MaxStages
    /\ \A q \in Procs : procs[q].op # "idle" => procs[q].tmp_root = tmp_root
    /\ \E todo \in Listings({x \in StageRootPaths : fs[x].type # "none"}) :
         procs' = [procs EXCEPT ![p] =
                     [Idle EXCEPT !.op = "setup", !.was = procs[p].was,
                                  !.tmp_root = tmp_root, !.todo = todo,
                                  !.pc = after_cleanup(todo)]]
    /\ made' = made + 1
    /\ UNCHANGED <<fs, procFrame>>

\* _cleanup_dead_links: os.path.islink and os.path.exists of one entry.
CleanupLink(p) ==
    /\ procs[p].pc = "cleanup"
    /\ procs' = IF Dangling(fs, Head(procs[p].todo))
                THEN [procs EXCEPT ![p].pc = "cleanup_unlink"]
                ELSE [procs EXCEPT ![p].todo = Tail(@),
                                   ![p].pc = after_cleanup(Tail(procs[p].todo))]
    /\ UNCHANGED <<fs, made, procFrame>>

\* _cleanup_dead_links: os.unlink(path) of the entry it found dead.
CleanupUnlink(p) ==
    /\ procs[p].pc = "cleanup_unlink"
    /\ IF fs[Head(procs[p].todo)].type \in {"link", "file"}
       THEN /\ fs' = os_unlink(fs, Head(procs[p].todo))
            /\ procs' = [procs EXCEPT
                           ![p].todo = Tail(@),
                           ![p].pc = after_cleanup(Tail(procs[p].todo))]
       ELSE /\ fs' = fs
            /\ procs' = [procs EXCEPT ![p].pc = "done", ![p].kind = "OSError"]
    /\ UNCHANGED <<made, procFrame>>

\* The tests of _need_to_create_path, up to its os.unlink or its return.
NeedToCreatePath(p) ==
    /\ procs[p].pc = "need"
    /\ \E r \in {_need_to_create_path(fs, NamedPath, procs[p].tmp_root,
                                      procs[p].tmp_root # NoTmp)} :
         procs' = [procs EXCEPT
                     ![p].kind = r.kind,
                     ![p].pc = IF r.kind # "ok" THEN "done"
                               ELSE IF r.fs # fs THEN "unlink_path"
                               ELSE IF ~r.create THEN "access"
                               ELSE IF procs[p].tmp_root # NoTmp THEN "mkdtemp"
                               ELSE "mkdirp"]
    /\ UNCHANGED <<fs, made, procFrame>>

\* The os.unlink(self.path) of _need_to_create_path.
UnlinkPath(p) ==
    /\ procs[p].pc = "unlink_path"
    /\ unlink_or_raise(p, NamedPath,
                       IF procs[p].tmp_root # NoTmp THEN "mkdtemp" ELSE "mkdirp")
    /\ UNCHANGED <<made, procFrame>>

\* tmp_dir = tempfile.mkdtemp('', STAGE_PREFIX, self.tmp_root)
MakeTmpDir(p) ==
    /\ procs[p].pc = "mkdtemp"
    /\ \E n \in TmpNames :
         /\ fs[join_path(procs[p].tmp_root, n)].type = "none"
         /\ fs' = mkdtemp(fs, join_path(procs[p].tmp_root, n))
         /\ procs' = [procs EXCEPT ![p].dir = join_path(procs[p].tmp_root, n),
                                   ![p].pc = "symlink"]
    /\ UNCHANGED <<made, procFrame>>

\* os.symlink(tmp_dir, self.path): OSError when something is at path.
LinkPath(p) ==
    /\ procs[p].pc = "symlink"
    /\ IF fs[NamedPath].type = "none"
       THEN /\ fs' = os_symlink(fs, procs[p].dir, NamedPath)
            /\ procs' = [procs EXCEPT ![p].pc = "access"]
       ELSE /\ fs' = fs
            /\ procs' = [procs EXCEPT ![p].pc = "done", ![p].kind = "OSError"]
    /\ UNCHANGED <<made, procFrame>>

\* mkdirp(self.path)
MakePath(p) ==
    /\ procs[p].pc = "mkdirp"
    /\ fs' = mkdirp(fs, NamedPath)
    /\ procs' = [procs EXCEPT ![p].pc = "access"]
    /\ UNCHANGED <<made, procFrame>>

\* ensure_access(self.path), which ends _setup: tty.die unless the
\* directory is there.
EnsureAccess(p) ==
    /\ procs[p].pc = "access"
    /\ procs' = [procs EXCEPT
                   ![p].pc = "done",
                   ![p].kind = IF os_path_isdir(fs, NamedPath) THEN "ok"
                               ELSE "die",
                   ![p].has_stage = os_path_isdir(fs, NamedPath)]
    /\ UNCHANGED <<fs, made, procFrame>>

\* destroy: the tests of remove_linked_tree and its os.path.realpath.
DestroyStart(p) ==
    /\ procs[p].pc = "done" /\ procs[p].has_stage
    /\ procs' = [procs EXCEPT
                   ![p].op = "destroy", ![p].kind = "ok",
                   ![p].dir = os_path_realpath(fs, NamedPath),
                   ![p].pc = IF ~os_path_exists(fs, NamedPath) THEN "done"
                             ELSE IF os_path_islink(fs, NamedPath)
                             THEN "rmtree_target" ELSE "rmtree_path"]
    /\ UNCHANGED <<fs, made, procFrame>>

\* shutil.rmtree(dir, True): it empties the directory and then removes it,
\* and goes on over what is no directory.
RemoveTree(p) ==
    /\ procs[p].pc \in {"rmtree_target", "rmtree_path"}
    /\ \E d \in {procs[p].dir} :
         IF fs[d].type = "dir" /\ fs[d].content # "removing"
         THEN /\ fs' = [fs EXCEPT ![d] = DirNode("removing")]
              /\ procs' = procs
         ELSE /\ fs' = rmtree(fs, d)
              /\ procs' = [procs EXCEPT
                             ![p].pc = IF procs[p].pc = "rmtree_target"
                                       THEN "unlink_link" ELSE "done"]
    /\ UNCHANGED <<made, procFrame>>

\* The os.unlink(path) of remove_linked_tree.
UnlinkLink(p) ==
    /\ procs[p].pc = "unlink_link"
    /\ unlink_or_raise(p, NamedPath, "done")
    /\ UNCHANGED <<made, procFrame>>

\* What the next write of fetch or of expand_archive makes of the stage
\* directory.
written(c) == CASE c = "empty"     -> "fetching"
                [] c = "fetching"  -> "archive"
                [] c = "archive"   -> "expanding"
                [] c = "expanding" -> "expanded"
                [] OTHER           -> c

\* One write of fetch or of expand_archive into the stage directory.
FetcherWrite(p) ==
    /\ procs[p].has_stage
    /\ procs[p].pc \in {"done", "fetcher"}
    /\ os_path_isdir(fs, NamedPath)
    /\ \E d \in {os_path_realpath(fs, NamedPath)} :
         /\ written(fs[d].content) # fs[d].content
         /\ fs' = [fs EXCEPT ![d] = DirNode(written(fs[d].content))]
         /\ procs' = [procs EXCEPT
                        ![p].op = "fetch", ![p].kind = "ok",
                        ![p].pc = IF fs'[d].content \in {"fetching", "expanding"}
                                  THEN "fetcher" ELSE "done"]
    /\ UNCHANGED <<made, procFrame>>

\* The process is terminated between two calls of a method.
Kill(p) ==
    /\ procs[p].pc # "done"
    /\ procs' = [procs EXCEPT ![p] = [Idle EXCEPT !.op = "killed",
                                                 !.was = procs[p].op,
                                                 !.tmp_root = procs[p].tmp_root]]
    /\ UNCHANGED <<fs, made, procFrame>>

\* The calls of _setup.
SetupSteps(p) ==
    \/ CleanupLink(p)
    \/ CleanupUnlink(p)
    \/ NeedToCreatePath(p)
    \/ UnlinkPath(p)
    \/ MakeTmpDir(p)
    \/ LinkPath(p)
    \/ MakePath(p)
    \/ EnsureAccess(p)

\* No process has started yet.
NoneStarted == \A q \in Procs : procs[q].op = "idle"

\* Two processes construct the named stage under one configuration, their
\* calls interleaved, on a stage root where another program may have left
\* a file or a dangling link.
NextRace ==
    \/ \E p \in Procs :
         \/ \E tmp_root \in {NoTmp, tmp_dirs[1]} : SetupStart(p, tmp_root)
         \/ SetupSteps(p)
    \/ /\ NoneStarted
       /\ \E node \in {FileNode, LinkNode(join_path(tmp_dirs[1], "spack-stage-2"))} :
            ExternalReplace(node, FALSE)

SpecRace == Init /\ [][NextRace]_vars

\* One process at a time sets up, fetches into, expands into and destroys
\* the named stage and can be terminated between two calls; the next
\* process starts after it.  Another program may have left a file at the
\* path.
NextCrash ==
    \/ \E tmp_root \in {NoTmp, tmp_dirs[1]} : SetupStart("p", tmp_root)
    \/ SetupSteps("p")
    \/ FetcherWrite("p")
    \/ DestroyStart("p")
    \/ RemoveTree("p")
    \/ UnlinkLink("p")
    \/ Kill("p")
    \/ NoneStarted /\ ExternalReplace(FileNode, FALSE)

SpecCrash == Init /\ [][NextCrash]_vars

\* The process p constructs the named stage in temp mode and destroys it;
\* the process q constructs a stage on the same stage root once p holds
\* its stage, the calls of the two interleaved.
NextDestroyRace ==
    \/ NoneStarted /\ SetupStart("p", tmp_dirs[1])
    \/ procs["p"].has_stage /\ SetupStart("q", tmp_dirs[1])
    \/ \E p \in Procs :
         \/ CleanupLink(p)
         \/ CleanupUnlink(p)
         \/ NeedToCreatePath(p)
         \/ MakeTmpDir(p)
         \/ LinkPath(p)
         \/ EnsureAccess(p)
    \/ DestroyStart("p")
    \/ RemoveTree("p")
    \/ UnlinkLink("p")

SpecDestroyRace == Init /\ [][NextDestroyRace]_vars

Next == NextDB \/ NextNames \/ NextIndex \/ NextGraph \/ NextStage \/ NextSetup \/ NextFetch
        \/ NextSource \/ NextRace \/ NextCrash \/ NextDestroyRace

Spec == Init /\ [][Next]_vars

\* ================================================================== claims
IsGet(r) == r.op = "get"
IsGetClass(r) == r.op = "get_class_for_package_name"
Objects(ev) == {e[2] : e \in ev}

\* C1: in a sequence of get calls with no delete, purge or new=True in
\* between, get(a) returns the object the last get of an equal spec returned
\* and an object different from the one returned for every other spec, also
\* for a spec of the same package name; the instance cache holds no object
\* under two specs.
C1_OneInstancePerIdentity ==
    /\ [][(IsGet(ret') /\ ret'.kind = "ok" /\ ~ret'.new) =>
            \A b \in ConcreteSpecs :
               lastGot[b] # 0 => ((ret'.inst = lastGot[b]) <=> (b = ret'.spec))]_vars
    /\ [](\A a, b \in DOMAIN instances : instances[a] = instances[b] => a = b)

\* A get answered from the cache while a second spec of the same package
\* name holds another object.
C1_Witness ==
    /\ IsGet(ret) /\ ret.kind = "ok" /\ ~ret.new /\ ret.made = 0
    /\ \E b \in DOMAIN instances :
         b # ret.spec /\ b.name = ret.spec.name /\ instances[b] # ret.inst

\* C2: a successful get(spec, new=True) returns an object constructed in that
\* call, never one that existed before it; a later plain get of an equal spec
\* returns the object of the last successful get, until the next delete,
\* purge or new=True of that spec.
C2_NewIsFresh ==
    [][/\ (IsGet(ret') /\ ret'.new /\ ret'.kind = "ok") =>
            /\ ret'.made = 1
            /\ ret'.inst \notin Range(instances) \cup Objects(evicted)
            /\ lastGot'[ret'.spec] = ret'.inst
       /\ (IsGet(ret') /\ ~ret'.new /\ ret'.kind = "ok"
             /\ lastGot[ret'.spec] # 0) =>
            ret'.inst = lastGot[ret'.spec]]_vars

\* get(spec, new=True) has replaced the object cached for spec.
C2_Witness ==
    /\ IsGet(ret) /\ ret.new /\ ret.kind = "ok"
    /\ ret.dropped # {}
    /\ instances[ret.spec] = ret.inst

\* C3: no get returns an object that was cached when a delete of its spec or
\* a purge was called; a successful delete removes the entry of its spec and
\* leaves every other entry as it was; purge leaves no entry.
C3_EvictionIsFinal ==
    [][/\ (IsGet(ret') /\ ret'.kind = "ok") =>
            ret'.inst \notin Objects(evicted)
       /\ (ret'.op = "delete" /\ ret'.kind = "ok") =>
            /\ ret'.spec \notin DOMAIN instances'
            /\ \A b \in DOMAIN instances \ {ret'.spec} :
                 b \in DOMAIN instances' /\ instances'[b] = instances[b]
            /\ DOMAIN instances' \subseteq DOMAIN instances
       /\ (ret'.op = "purge") => DOMAIN instances' = {}]_vars

\* A get of a spec whose earlier object was dropped, with another spec cached.
C3_Witness ==
    /\ IsGet(ret) /\ ret.kind = "ok" /\ ~ret.new
    /\ \E e \in evicted : e[1] = ret.spec
    /\ DOMAIN instances # {ret.spec}

\* C4: for every package name the recipe source is loaded at most once, and
\* every successful get_class_for_package_name returns the one class object
\* of that load.
C4_LoadedAtMostOnce ==
    /\ \A n \in PkgNames : loads[n] <= 1
    /\ (IsGetClass(ret) /\ ret.kind = "ok") => ret.cls = classCache[ret.name]

\* C5: get of a spec whose virtual flag is set raises UnknownPackageError,
\* with and without new=True, and loads no recipe, constructs no object and
\* leaves the instance cache and the class cache as they were.
C5_VirtualIsUnknown ==
    [][(IsGet(ret') /\ ret'.spec.virtual) =>
         /\ ret'.kind = "UnknownPackageError"
         /\ instances' = instances
         /\ classCache' = classCache
         /\ loads' = loads
         /\ nextInst' = nextInst]_vars

\* get(virtual spec, new=True) on a registry that holds objects, with the
\* recipe of that name not loaded.
C5_Witness ==
    /\ IsGet(ret) /\ ret.spec.virtual /\ ret.new
    /\ ret.kind = "UnknownPackageError"
    /\ instances # <<>>
    /\ ret.spec.name \notin DOMAIN classCache

\* C6: when the constructor raises, get raises FailedConstructorError with
\* str() of the original exception, the spec has no cache entry afterwards,
\* every other entry is as it was and the process lives on; and every get
\* that misses the cache and gets the class runs the constructor, so a later
\* get of the same spec constructs again.
C6_FailedConstructor ==
    [][/\ (IsGet(ret') /\ ret'.kind = "FailedConstructorError") =>
            /\ ret'.ctor \in Exceptions
            /\ ret'.cause = ret'.ctor.msg
            /\ ret'.spec \notin DOMAIN instances'
            /\ \A b \in DOMAIN instances \ {ret'.spec} :
                 b \in DOMAIN instances' /\ instances'[b] = instances[b]
            /\ ~Dead'
       /\ (IsGet(ret') /\ ret'.spec \in ConcreteSpecs
             /\ ret'.spec \notin DOMAIN instances
             /\ ret'.kind \in {"ok", "FailedConstructorError"}) =>
            ret'.ctor \in CtorOutcomes]_vars

\* A constructor has raised while another spec of the same name is cached.
C6_Witness ==
    /\ IsGet(ret) /\ ret.kind = "FailedConstructorError"
    /\ \E b \in DOMAIN instances : b.name = ret.spec.name

\* C7: providers_for(v) raises UnknownPackageError exactly when the provider
\* index has no provider of v, which is when no name of all_package_names()
\* has a recipe that provides v; otherwise it returns all of them.
C7_ProvidersFor ==
    (ret.op = "providers_for") =>
        LET found == provider_index[1][ret.name] IN
        /\ found = {n \in Range(nameCache[<<>>]) : ret.name \in provided(n)}
        /\ (ret.kind = "UnknownPackageError") <=> (found = {})
        /\ (ret.kind = "ok") <=> (found # {})
        /\ (ret.kind = "ok") => ret.provs = found

\* providers_for has returned two providers of one virtual package.
C7_Witness ==
    /\ ret.op = "providers_for" /\ ret.kind = "ok"
    /\ Cardinality(ret.provs) = 2

IsSorted(l) == \A i, j \in 1..Len(l) : i < j => NameRank(l[i]) < NameRank(l[j])

\* C8: the call that fills the cache of all_package_names stores the names
\* whose package.py is a regular file at that time, each once, in string
\* order; the cached list never changes afterwards, and every
\* all_package_names() call returns it.
C8_AllPackageNames ==
    [][/\ (<<>> \notin DOMAIN nameCache /\ <<>> \in DOMAIN nameCache') =>
            /\ ret'.listed
            /\ Range(nameCache'[<<>>]) = {n \in PkgNames : isfile(ret'.seen[n])}
            /\ IsSorted(nameCache'[<<>>])
       /\ (<<>> \in DOMAIN nameCache) => nameCache' = nameCache
       /\ (ret'.op = "all_package_names") => ret'.names = nameCache'[<<>>]]_vars

\* A later all_package_names() call answered from the cache.
C8_Witness ==
    /\ ret.op = "all_package_names" /\ ~ret.listed
    /\ ret.names = <<"boost", "zlib">>

\* C9: when get_class_for_package_name runs on a name that is not cached: an
\* absent package.py gives UnknownPackageError and leaves the class cache
\* and the load count as they were; a path that exists and is not a regular
\* file, or is not readable, ends the process; a readable file that defines
\* the class is loaded and cached.
C9_ClassFileState ==
    [][(IsGetClass(ret') /\ ret'.name \notin DOMAIN classCache) =>
         /\ (ret'.file.state = "absent") =>
              /\ ret'.kind = "UnknownPackageError"
              /\ classCache' = classCache /\ loads' = loads
         /\ (ret'.file.state \in {"dir", "unreadable"}) =>
              /\ ret'.kind = "die"
              /\ classCache' = classCache /\ loads' = loads
         /\ (ret'.file = GoodFile) =>
              /\ ret'.kind = "ok"
              /\ loads'[ret'.name] = loads[ret'.name] + 1
              /\ classCache'[ret'.name] = ret'.cls]_vars

\* get_class_for_package_name has found an unreadable package.py.
C9_Witness ==
    /\ IsGetClass(ret) /\ ret.file.state = "unreadable" /\ Dead

\* C10: every failure of a package.py that was found readable ends the
\* process: an error raised while loading it, a module without the class,
\* an attribute that is not a class.
C10_LoadFailureIsFatal ==
    (ret.file.state = "file" /\ ret.file.content # "ok") => ret.kind = "die"

\* Number of lines of out equal to line.
Count(out, line) == Cardinality({i \in DOMAIN out : out[i] = line})

GraphDone == graph.pc = "done"

NamedSetup == made' = made + 1 /\ sret'.op = "Stage" /\ sret'.name = "foo"

\* The step constructs the named stage under the configuration and the
\* permissions of the construction that was the call before it.
SetupRepeated ==
    /\ NamedSetup
    /\ sret.op = "Stage" /\ sret.name = "foo" /\ sret.kind = "ok"
    /\ sret'.use_tmp = sret.use_tmp
    /\ sret'.tmp_root = sret.tmp_root
    /\ sret'.writable = sret.writable
    /\ sret'.access = sret.access

\* path holds a stage directory of the mode: under tmp_root a link to an
\* existing directory below tmp_root, without tmp_root a real directory.
ValidStage(f, path, tmp_root) ==
    IF tmp_root # NoTmp
    THEN /\ os_path_islink(f, path)
         /\ os_path_isdir(f, path)
         /\ os_path_realpath(f, path).root = tmp_root
    ELSE f[path].type = "dir"

\* C13: a construction of the named stage that follows a successful one
\* under the same configuration, with nothing in between, succeeds and
\* leaves the whole file system as it was; and no construction deletes or
\* replaces a valid stage directory at path, or its content.
C13_SetupIdempotent ==
    [][ /\ SetupRepeated =>
            /\ sret'.kind = "ok"
            /\ ~sret'.created
            /\ fs' = fs
        /\ NamedSetup /\ ValidStage(fs, NamedPath, sret'.tmp_root) =>
            /\ fs'[NamedPath] = fs[NamedPath]
            /\ fs'[os_path_realpath(fs, NamedPath)]
                 = fs[os_path_realpath(fs, NamedPath)] ]_vars

C13_Witness ==
    /\ sret.op = "Stage" /\ sret.name = "foo" /\ sret.kind = "ok"
    /\ made = 2 /\ changes = 0
    /\ ~sret.created
    /\ os_path_islink(fs, NamedPath)
    /\ fs[NamedPath].target.root = sret.tmp_root

\* C14 (as written): a successful setup of the named stage creates path
\* anew when it held a regular file and, under a tmp_root, when it held a
\* link whose target is not a directory below tmp_root or does not exist;
\* it keeps a link only if the target is below tmp_root and exists.
C14_RecreateOrKeep ==
    [][ NamedSetup /\ sret'.kind = "ok" =>
          /\ fs[NamedPath].type = "file" => sret'.created
          /\ ( /\ sret'.use_tmp /\ sret'.tmp_root # NoTmp
               /\ os_path_islink(fs, NamedPath)
               /\ \/ fs[NamedPath].target.root # sret'.tmp_root
                  \/ ~os_path_exists(fs, NamedPath) )
             => sret'.created
          /\ os_path_islink(fs, NamedPath) /\ ~sret'.created
             => /\ fs[NamedPath].target.root = sret'.tmp_root
                /\ os_path_exists(fs, NamedPath) ]_vars

\* C15 (as written): a setup of the named stage without tmp_root, with
\* access to the stage, that finds path a link to a directory ends without
\* error and leaves path a real directory below the stage root.
C15_LinkBecomesDirectory ==
    [][ /\ NamedSetup
        /\ sret'.tmp_root = NoTmp /\ sret'.access
        /\ os_path_islink(fs, NamedPath) /\ os_path_isdir(fs, NamedPath)
        => /\ sret'.kind = "ok"
           /\ fs'[NamedPath].type = "dir" ]_vars

\* C16 (as written): after a successful Stage construction, under a
\* tmp_root path is a link whose target is below tmp_root, and with
\* temporary staging disabled path is a real directory below the stage root.
C16_PathMatchesMode ==
    sret.op = "Stage" /\ sret.kind = "ok" =>
      /\ sret.use_tmp /\ sret.tmp_root # NoTmp =>
           /\ os_path_islink(fs, sret.path)
           /\ fs[sret.path].target.root = sret.tmp_root
      /\ ~sret.use_tmp =>
           /\ fs[sret.path].type = "dir"
           /\ sret.path.root = stage_path

\* C17: destroy ends without error whatever the stage holds, and a destroy
\* that follows a destroy changes neither the file system nor the working
\* directory.
C17_DestroyIdempotent ==
    [][ sret'.op = "destroy" =>
          /\ sret'.kind = "ok"
          /\ sret.op = "destroy" => fs' = fs /\ cwd' = cwd ]_vars

C17_Witness ==
    /\ sret.op = "destroy" /\ sret.kind = "ok"
    /\ sret.path = NamedPath
    /\ fs[NamedPath].type = "none"
    /\ \A p \in TmpPaths : fs[p].type = "none"
    /\ made = 1

\* C18 (as written): after destroy nothing is left at path, nor at the
\* target when path was a link.
C18_NothingRemains ==
    sret.op = "destroy" => fs[sret.path].type = "none"

\* The working directory c exists in f.
CwdExists(c, f) == c.alive /\ (c.at \in Paths => f[c.at].type = "dir")

\* C19: after destroy the working directory exists; a working directory
\* that existed inside the tree destroy removed has become the stage root,
\* which is outside that tree, and one that existed elsewhere is unchanged.
C19_CwdSurvivesDestroy ==
    [][ sret'.op = "destroy" =>
          /\ CwdExists(cwd', fs')
          /\ CwdExists(cwd, fs) /\ ~CwdExists(cwd, fs') =>
               /\ cwd.at = os_path_realpath(fs, sret'.path)
               /\ cwd'.at = dirname(sret'.path)
               /\ cwd'.at # cwd.at
          /\ CwdExists(cwd, fs) /\ CwdExists(cwd, fs') => cwd' = cwd ]_vars

C19_Witness ==
    /\ sret.op = "destroy"
    /\ cwd.at = dirname(NamedPath)
    /\ cwd.alive
    /\ fs[NamedPath].type = "none"

\* C20: fetch tries the fetchers in the order of the list made of one URL
\* fetcher per mirror of the configuration, in its order, with the URL
\* mirror/mirror_path, and the stage's own fetcher last (the stage's own
\* fetcher alone without mirror_path); each fetcher tried before the last
\* one tried has failed, and a fetcher that returns is the last one tried.
C20_FetchInOrder ==
    sret.op = "fetch" /\ sret.kind # "die" =>
      LET n == IF stage.mirror_path # NoMirrorPath THEN Len(sret.mirrors) ELSE 0
      IN /\ Len(sret.attempts) = n + 1
         /\ \A i \in 1..n :
              /\ sret.attempts[i].type = "url"
              /\ sret.attempts[i].url.base = sret.mirrors[i]
              /\ sret.attempts[i].url.path = stage.mirror_path
         /\ sret.attempts[n + 1] = stage.fetcher
         /\ Len(sret.tried) \in 1..(n + 1)
         /\ \A k \in 1..Len(sret.tried) :
              /\ sret.tried[k] = k
              /\ k < Len(sret.tried) => sret.outcomes[k] = "SpackError"
         /\ Len(sret.tried) < n + 1
              => sret.outcomes[Len(sret.tried)] # "SpackError"

C20_Witness ==
    /\ sret.op = "fetch" /\ sret.kind = "ok"
    /\ sret.mirrors = <<"m1", "m2">>
    /\ stage.mirror_path # NoMirrorPath
    /\ sret.outcomes[1] = "SpackError" /\ sret.outcomes[2] = "ok"
    /\ sret.tried = <<1, 2>>

\* C21: in fetch, a fetcher that fails with a download, checkout or checksum
\* failure (a spack.error.SpackError) never ends fetch: the next fetcher of
\* the list is tried, and after the failure of the last one fetch returns
\* without raising; so a fetch whose fetchers all fail has tried every one
\* of them and returns.
C21_FailureNeverEndsFetch ==
    sret.op = "fetch" /\ sret.kind # "die" =>
      /\ \A k \in 1..Len(sret.tried) :
           sret.outcomes[sret.tried[k]] = "SpackError" =>
             IF sret.tried[k] < Len(sret.attempts)
             THEN /\ k < Len(sret.tried)
                  /\ sret.tried[k + 1] = sret.tried[k] + 1
             ELSE sret.kind = "ok"
      /\ (\A i \in DOMAIN sret.outcomes : sret.outcomes[i] = "SpackError") =>
           /\ sret.kind = "ok"
           /\ Len(sret.tried) = Len(sret.attempts)
           /\ sret.won = 0

\* Both mirrors and the stage's own fetcher have failed, and fetch returned.
C21_Witness ==
    /\ sret.op = "fetch" /\ sret.kind = "ok"
    /\ sret.mirrors = <<"m1", "m2">>
    /\ sret.outcomes = <<"SpackError", "SpackError", "SpackError">>
    /\ sret.tried = <<1, 2, 3>>

\* C27: every fetcher that fetch builds for a mirror is a URL fetcher that
\* carries the digest of the stage's own fetcher when that one is a URL
\* fetcher, and no digest when it is not; no mirror fetcher carries a digest
\* other than that of the stage's own fetcher.
C27_MirrorDigest ==
    sret.op = "fetch" /\ sret.kind # "die" /\ stage.mirror_path # NoMirrorPath =>
      \A i \in 1..Len(sret.mirrors) :
        /\ sret.attempts[i].type = "url"
        /\ stage.fetcher.type = "url" =>
             sret.attempts[i].digest = stage.fetcher.digest
        /\ stage.fetcher.type # "url" => sret.attempts[i].digest = ""
        /\ sret.attempts[i].digest = stage.fetcher.digest

\* fetch has built two mirror fetchers beside a URL fetcher with a digest.
C27_Witness ==
    /\ sret.op = "fetch" /\ sret.kind # "die"
    /\ stage.mirror_path # NoMirrorPath
    /\ stage.fetcher = URLFetchStrategy(PrimaryURL, "D")
    /\ Len(sret.mirrors) = 2
    /\ sret.attempts[1].digest = "D" /\ sret.attempts[2].digest = "D"

GetFailed(r) ==
    IsGet(r) /\ r.kind \in {"UnknownPackageError", "FailedConstructorError"}

\* C30 (as written): a get that raises UnknownPackageError or
\* FailedConstructorError leaves the instance cache as it was before the
\* call, also with new=True and an object cached for the spec.
C30_FailedGetKeepsCache ==
    [][GetFailed(ret') => instances' = instances]_vars

\* C30 (amended): a get that raises UnknownPackageError or
\* FailedConstructorError adds no entry and leaves the entry of every other
\* spec as it was; without new=True, and for a virtual spec, the whole
\* cache is as it was; with new=True on a spec that is not virtual the spec
\* has no entry afterwards, so an object cached for it before the call is
\* gone.
C30_FailedGetKeepsOthers ==
    [][GetFailed(ret') =>
         /\ DOMAIN instances' \subseteq DOMAIN instances
         /\ \A b \in DOMAIN instances \ {ret'.spec} :
              b \in DOMAIN instances' /\ instances'[b] = instances[b]
         /\ (~ret'.new \/ ret'.spec.virtual) => instances' = instances
         /\ (ret'.new /\ ~ret'.spec.virtual) =>
              ret'.spec \notin DOMAIN instances']_vars

\* get(spec, new=True) has dropped the object cached for spec and its
\* constructor has raised, with another spec cached.
C30_Witness ==
    /\ IsGet(ret) /\ ret.new /\ ret.kind = "FailedConstructorError"
    /\ \E e \in ret.dropped : e[1] = ret.spec
    /\ ret.spec \notin DOMAIN instances
    /\ instances # <<>>

\* C26: provider_index is None from construction until the first
\* providers_for call; that call sets it to the index of the list
\* all_package_names() returns; no call changes it afterwards, so each later
\* providers_for call, also after delete, purge or a providers_for call that
\* raised UnknownPackageError, answers from that same index.
C26_IndexBuiltOnce ==
    /\ provider_index = <<>>
    /\ [][ /\ ret'.op # "providers_for" => provider_index' = provider_index
           /\ ret'.op = "providers_for" =>
                /\ provider_index = <<>> =>
                     provider_index' = <<ProviderIndex(nameCache'[<<>>])>>
                /\ provider_index # <<>> => provider_index' = provider_index
                /\ ret'.kind = "ok" =>
                     ret'.provs = provider_index'[1][ret'.name]
                /\ ret'.kind # "ok" => provider_index'[1][ret'.name] = {} ]_vars

\* A providers_for call that raised, on the index of an earlier call, after
\* a cached object was dropped.
C26_Witness ==
    /\ ret.op = "providers_for" /\ ret.kind = "UnknownPackageError"
    /\ ~ret.listed
    /\ evicted # {}
    /\ provider_index # <<>>
    /\ provider_index[1]["mpi"] # {}

\* C28 (as written): the tmp_root of a Stage construction is the first of
\* the candidates that is writable, every candidate tried before it having
\* failed; it is None when temporary staging is disabled or no candidate is
\* writable; and a construction with temporary staging enabled and tmp_root
\* None, with access to the stage, completes with path a real directory
\* below the stage root.
C28_FirstWritableCandidate ==
    sret.op = "Stage" =>
      /\ sret.tmp_root # NoTmp =>
           /\ sret.use_tmp
           /\ sret.tmp_root = tmp_dirs[Len(sret.probed)]
           /\ sret.probed[Len(sret.probed)] = "writable"
           /\ \A j \in 1..(Len(sret.probed) - 1) : sret.probed[j] # "writable"
      /\ sret.tmp_root = NoTmp =>
           \/ ~sret.use_tmp
           \/ /\ Len(sret.probed) = Len(tmp_dirs)
              /\ \A j \in DOMAIN sret.probed : sret.probed[j] # "writable"
      /\ (sret.tmp_root = NoTmp /\ sret.use_tmp /\ sret.access) =>
           /\ sret.kind = "ok"
           /\ sret.path.root = stage_path
           /\ fs[sret.path].type = "dir"

\* C29: after a Stage construction, however it ended, no link directly
\* below the stage root is dangling; what was a dangling link below the
\* stage root and is not the path of the stage is gone; every other entry
\* below the stage root that is not the path of the stage (a link whose
\* target exists, a regular file, the directory of another stage) and every
\* existing directory below the temporary roots is as it was.
C29_HygienePass ==
    [][ (sret'.op = "Stage" /\ made' = made + 1) =>
          /\ \A p \in StageRootPaths : ~Dangling(fs', p)
          /\ \A p \in StageRootPaths \ {sret'.path} :
               fs'[p] = IF Dangling(fs, p) THEN NoNode ELSE fs[p]
          /\ \A p \in TmpPaths : fs[p].type = "dir" => fs'[p] = fs[p] ]_vars

\* A construction of an unnamed stage has removed the dangling link at the
\* path of the named stage and left the directory of another stage alone.
C29_Witness ==
    /\ sret.op = "Stage" /\ sret.kind = "ok" /\ sret.name = NoName
    /\ made = 2 /\ changes = 1
    /\ fs[NamedPath].type = "none"
    /\ \E p \in StageRootPaths \ {sret.path, NamedPath} : fs[p].type # "none"

\* C22: chdir_to_source on a stage whose path is a directory takes the first
\* entry of the listing of path that is a directory, passing over the
\* entries before it that are not (the archive); without such an entry it
\* ends the process; with one it changes the working directory to it, and
\* ends the process when that directory is empty and returns otherwise.
C22_FirstDirectory ==
    [][ (sret'.op = "chdir_to_source" /\ os_path_isdir(fs, stage.path)) =>
          LET l == sret'.listing
              dirs == {i \in DOMAIN l : l[i].type = "dir"}
          IN /\ Range(l) = listdir(fs, stage.path)
             /\ dirs = {} => sret'.kind = "die"
             /\ dirs # {} =>
                  LET first == l[CHOOSE i \in dirs : \A j \in dirs : i <= j]
                  IN /\ cwd'.at = os_path_realpath(fs, stage.path)
                     /\ cwd'.sub = first.name
                     /\ cwd'.alive
                     /\ sret'.kind = IF first.empty THEN "die" ELSE "ok" ]_vars

\* chdir_to_source has passed over the archive, listed first, and has taken
\* the first of two directories.
C22_Witness ==
    /\ sret.op = "chdir_to_source" /\ sret.kind = "ok"
    /\ sret.listing = <<ArchiveEntry, SourceEntry(FALSE), DocEntry>>
    /\ cwd.at = os_path_realpath(fs, stage.path)
    /\ cwd.sub = "zlib-1"

\* C23 (as written): a restage that directly follows the construction that
\* created the stage directory, so before any fetch, raises RestageError
\* and leaves the file system as it was; and raise RestageError(...) or
\* raise ChdirError(...) raises an error of that class.
C23_RestageError ==
    [][ /\ ( /\ sret'.op = "restage"
             /\ sret.op = "Stage" /\ sret.kind = "ok" /\ sret.created )
           => sret'.kind = "RestageError" /\ fs' = fs
        /\ sret'.op = "raise" => sret'.kind = sret'.raised ]_vars

\* A process has returned from or has been thrown out of _setup.
SetupEnded(p) == procs[p].op = "setup" /\ procs[p].pc = "done"

\* C24 (as written): when two processes construct the named stage under the
\* same tmp_root, whatever the order of their file system calls, each
\* _setup ends without error, and when both have ended path is a directory
\* or a link to one.
C24_ConcurrentSetup ==
    /\ \A p \in Procs : SetupEnded(p) => procs[p].kind = "ok"
    /\ (\A p \in Procs : SetupEnded(p)) => os_path_isdir(fs, NamedPath)

C31_DestroyBesideConstruct ==
    [][(procs["p"].pc = "unlink_link" /\ procs'["p"].pc = "done") =>
         /\ procs'["p"].kind = "ok"
         /\ fs'[NamedPath].type = "none"
         /\ fs'[procs["p"].dir].type = "none"]_vars

====
